---- MODULE Spec2Model ----
(***************************************************************************)
(* get_buildlog_info of ubuntu_package_buildlog_info/cli.py as a state     *)
(* machine: the pocket x status search of the archive, the choice of the   *)
(* build, and the fetch / extract / verify / write pipeline.               *)
(*                                                                         *)
(* A text is a sequence of atoms.  An atom is a string standing for a run  *)
(* of characters that the code never looks inside ("build/", a banner      *)
(* row, a word); the characters the code does look at one by one (the      *)
(* quote, the space, the newline) are atoms of their own.  Substring       *)
(* tests, str.replace, str.strip, str.split and the regular expression     *)
(* are computed on these sequences as Python computes them on characters.  *)
(***************************************************************************)
EXTENDS Naturals, Sequences, FiniteSets, TLC

\* ------------------------------------------------------------------ bounds
MaxSources == 2
MaxBinaries == 2
MaxBuilds == 3
MaxLogLines == 3
MaxChangesLines == 3

\* --------------------------------------------------------- text primitives
NL == "\n"
SPACE == " "
QUOTE == "'"

RECURSIVE StartsWith(_, _)
StartsWith(s, pat) ==
    IF pat = <<>> THEN TRUE
    ELSE IF s = <<>> THEN FALSE
    ELSE Head(s) = Head(pat) /\ StartsWith(Tail(s), Tail(pat))

\* Python's `pat in s` on strings.
RECURSIVE Contains(_, _)
Contains(s, pat) ==
    IF StartsWith(s, pat) THEN TRUE
    ELSE IF s = <<>> THEN FALSE
    ELSE Contains(Tail(s), pat)

\* str.splitlines(): the lines without their terminators; a final line
\* without terminator is kept, no empty last line after a final terminator.
RECURSIVE SplitLinesFrom(_, _)
SplitLinesFrom(text, cur) ==
    IF text = <<>> THEN (IF cur = <<>> THEN <<>> ELSE <<cur>>)
    ELSE IF Head(text) = NL THEN <<cur>> \o SplitLinesFrom(Tail(text), <<>>)
    ELSE SplitLinesFrom(Tail(text), Append(cur, Head(text)))

splitlines(text) == SplitLinesFrom(text, <<>>)

\* str.replace(old, new): left to right, non-overlapping, one pass.
RECURSIVE replace(_, _, _)
replace(s, old, new) ==
    IF Len(s) < Len(old) THEN s
    ELSE IF StartsWith(s, old)
         THEN new \o replace(SubSeq(s, Len(old) + 1, Len(s)), old, new)
    ELSE <<Head(s)>> \o replace(Tail(s), old, new)

\* str.strip(): leading and trailing whitespace removed.
RECURSIVE lstrip(_)
lstrip(s) == IF s # <<>> /\ Head(s) \in {SPACE, NL} THEN lstrip(Tail(s)) ELSE s

RECURSIVE rstrip(_)
rstrip(s) ==
    IF s # <<>> /\ s[Len(s)] \in {SPACE, NL} THEN rstrip(SubSeq(s, 1, Len(s) - 1)) ELSE s

strip(s) == rstrip(lstrip(s))

\* str.split(): the maximal runs of non-whitespace.
RECURSIVE SplitFrom(_, _)
SplitFrom(s, cur) ==
    IF s = <<>> THEN (IF cur = <<>> THEN <<>> ELSE <<cur>>)
    ELSE IF Head(s) \in {SPACE, NL}
         THEN (IF cur = <<>> THEN <<>> ELSE <<cur>>) \o SplitFrom(Tail(s), <<>>)
    ELSE SplitFrom(Tail(s), Append(cur, Head(s)))

split(s) == SplitFrom(s, <<>>)

\* The characters of a text as one string.
RECURSIVE Chars(_)
Chars(s) == IF s = <<>> THEN "" ELSE Head(s) \o Chars(Tail(s))

\* hashlib.sha256(text.encode("UTF-8")).hexdigest(): one atom, a different
\* one for every text (a collision-free digest).
hexdigest(text) == <<"sha256:" \o Chars(text)>>

\* Lines to a text, every line terminated.
RECURSIVE JoinLines(_)
JoinLines(lines) ==
    IF lines = <<>> THEN <<>> ELSE Head(lines) \o <<NL>> \o JoinLines(Tail(lines))

\* All sequences over S of length 0..n.
SeqsUpTo(S, n) == UNION {[1..k -> S] : k \in 0..n}

\* ------------------------------------------------- the program's constants
ARCHIVE_POCKETS == <<"Release", "Security", "Updates", "Proposed">>
PUBLICATION_STATUSES == <<"Published", "Superseded">>

\* The invocation: --package-name, --package-version, --package-architecture.
package_name == "libfoo1"
package_version == "1.0"
package_architecture == "amd64"

\* Source package names the archive's binaries may belong to, architecture
\* tags its builds may carry.
SourceNames == {"foo", "bar"}
ArchTags == {"amd64", "arm64"}

PKGBUILDDIR == <<"<<PKGBUILDDIR>>">>
NOTICE_MARKER == <<"I: NOTICE: Log filtering will replace">>
WITH_MARKER == <<"with", SPACE, QUOTE>> \o PKGBUILDDIR \o <<QUOTE>>
buildinfo_start == <<"| Buildinfo |">>
buildinfo_end == <<"| Package contents |">>
buildlog_header_separator == <<"+-----------+">>
CHECKSUMS_HEADER == <<"Checksums-Sha256:">>

\* ------------------------------------------------ placeholder path (186-199)
IsNoticeLine(buildlog_line) ==
    Contains(buildlog_line, NOTICE_MARKER) /\ Contains(buildlog_line, WITH_MARKER)

\* re.compile(r"'build/.*' ").search(line): the leftmost quote followed by
\* build/ from which a later quote-plus-space can be reached; `.*` is greedy,
\* so the match runs to the last quote-plus-space of the line.
RegexEnds(line, i) ==
    LET ends == {j \in (i + 2)..(Len(line) - 1) : line[j] = QUOTE /\ line[j + 1] = SPACE}
    IN  IF ends = {} THEN {} ELSE {CHOOSE j \in ends : \A k \in ends : j >= k}

pkg_builddir_regex_search(line) ==
    LET starts == {i \in 1..(Len(line) - 1) :
                      /\ line[i] = QUOTE
                      /\ line[i + 1] = "build/"
                      /\ RegexEnds(line, i) # {}}
    IN  IF starts = {} THEN [matched |-> FALSE, group0 |-> <<>>]
        ELSE LET i == CHOOSE a \in starts : \A b \in starts : a <= b
                 j == CHOOSE e \in RegexEnds(line, i) : TRUE
             IN  [matched |-> TRUE, group0 |-> SubSeq(line, i, j + 1)]

\* The loop of lines 187-199: the first notice line decides; a notice line
\* the expression does not match makes .search() return None, and
\* None.group(0) raises AttributeError.
RECURSIVE PlaceholderScan(_)
PlaceholderScan(lines) ==
    IF lines = <<>> THEN [raised |-> FALSE, pkg_builddir |-> <<>>]
    ELSE IF IsNoticeLine(Head(lines))
         THEN LET m == pkg_builddir_regex_search(Head(lines))
              IN  IF m.matched
                  THEN [raised |-> FALSE,
                        pkg_builddir |-> strip(replace(m.group0, <<QUOTE>>, <<>>))]
                  ELSE [raised |-> TRUE, pkg_builddir |-> <<>>]
    ELSE PlaceholderScan(Tail(lines))

\* ------------------------------------------------ manifest region (217-241)
StartsRegion(buildlog_line) == Contains(buildlog_line, buildinfo_start)

EndsScan(buildlog_line, append_to_buildinfo) == Contains(buildlog_line, buildinfo_end)

IsAppended(buildlog_line) ==
    /\ buildlog_line # buildinfo_start
    /\ buildlog_line # buildinfo_end
    /\ buildlog_line # buildlog_header_separator
    /\ buildlog_line # <<>>

RECURSIVE ManifestScan(_, _, _)
ManifestScan(lines, acc, append_to_buildinfo) ==
    IF lines = <<>> THEN acc
    ELSE LET buildlog_line == Head(lines)
             append == append_to_buildinfo \/ StartsRegion(buildlog_line)
         IN  IF EndsScan(buildlog_line, append) THEN acc
             ELSE ManifestScan(Tail(lines),
                               IF append /\ IsAppended(buildlog_line)
                               THEN acc \o buildlog_line \o <<NL>>
                               ELSE acc,
                               append)

\* ----------------------------------------------------- verification (259-275)
\* What the loop prints; "" when it prints nothing.
HashVerdict(changesfile_line, text) ==
    IF split(changesfile_line)[1] = hexdigest(text) THEN "hash_matches" ELSE "hash_mismatch"

RECURSIVE VerifyScan(_, _, _, _)
VerifyScan(lines, sha256_checksums_found, filename, text) ==
    IF lines = <<>> THEN ""
    ELSE LET changesfile_line == Head(lines)
             found == sha256_checksums_found \/ Contains(changesfile_line, CHECKSUMS_HEADER)
         IN  IF found /\ Contains(changesfile_line, filename)
             THEN HashVerdict(changesfile_line, text)
             ELSE VerifyScan(Tail(lines), found, filename, text)

\* ------------------------------------------------------------------- state
VARIABLES
    pc,                       \* the statement the run is at
    raised,                   \* the exception that ended the run, "" if none
    pocket_i, status_i,       \* `pocket`, `package_publication_status` (as indices)
    sources, binaries, bin_i, \* `sources`, `binaries`, the position of `binary`
    source_package_found,
    builds, build_i,          \* `builds`, the position of `build`
    architecture_build_found,
    source_package_name, source_package_version, source_package_arch_tag,
    changelog_resp, buildlog_resp, pkg_builddir, buildinfo, changesfile_resp,
    written,                  \* the files written, in order: [name, content]
    printed,                  \* the messages printed
    no_sources,               \* archive: names answered with no source at this combination
    visited,                  \* history: the combinations queried, in order
    matches,                  \* history: the queries that returned a source, in order
    processed,                \* history: the builds whose documents were requested
    fetched                   \* history: the documents fetched, in order

resolverVars == <<pocket_i, status_i, sources, binaries, bin_i, source_package_found,
                  no_sources, visited, matches>>
buildVars == <<builds, build_i, architecture_build_found, source_package_name,
               source_package_version, source_package_arch_tag, processed>>
docVars == <<changelog_resp, buildlog_resp, pkg_builddir, buildinfo, changesfile_resp,
             written, fetched>>
vars == <<pc, raised, resolverVars, buildVars, docVars, printed>>

\* A local that no statement has assigned yet holds a placeholder (UNBOUND, an
\* empty sequence, FALSE, 1); the code reads none before assigning it.
UNBOUND == "<unbound>"

Init ==
    /\ pc = "query_sources"
    /\ raised = ""
    /\ pocket_i = 1
    /\ status_i = 1
    /\ sources = <<>>
    /\ binaries = <<>>
    /\ bin_i = 1
    /\ source_package_found = FALSE
    /\ builds = <<>>
    /\ build_i = 1
    /\ architecture_build_found = FALSE
    /\ source_package_name = UNBOUND
    /\ source_package_version = UNBOUND
    /\ source_package_arch_tag = UNBOUND
    /\ changelog_resp = <<>>
    /\ buildlog_resp = <<>>
    /\ pkg_builddir = <<>>
    /\ buildinfo = <<>>
    /\ changesfile_resp = <<>>
    /\ written = <<>>
    /\ printed = {}
    /\ no_sources = {}
    /\ visited = <<>>
    /\ matches = <<>>
    /\ processed = <<>>
    /\ fetched = <<>>

\* ------------------------------------------------------ the archive's answers
Combination == [pocket |-> ARCHIVE_POCKETS[pocket_i], status |-> PUBLICATION_STATUSES[status_i]]

\* getPublishedSources(...): n publications of `name` at the combination.
PublishedSources(name, n) ==
    [k \in 1..n |-> [source_name |-> name, version |-> package_version,
                     pocket |-> Combination.pocket, status |-> Combination.status,
                     serial |-> k]]

\* getPublishedBinaries(...): binaries named package_name, each with the name
\* of its source package.
PublishedBinaries(names) ==
    [k \in 1..Len(names) |-> [binary_name |-> package_name, source_package_name |-> names[k]]]

\* getBuilds(): one build per tag, of the publication's source and version.
Builds(publication, tags) ==
    [k \in 1..Len(tags) |-> [arch_tag |-> tags[k],
                             source_package_name |-> publication.source_name,
                             source_package_version |-> publication.version,
                             build_log |-> k]]

PrintMessages(msgs) == printed' = printed \cup msgs

\* ------------------------------------------------------------ loop control
\* The end of one pass of the status loop's body without `break`: the next
\* status (97); after the last one, lines 145-147 and the next pocket (82).
Continue(found) ==
    IF status_i < Len(PUBLICATION_STATUSES)
    THEN /\ status_i' = status_i + 1
         /\ pocket_i' = pocket_i
         /\ no_sources' = {}
         /\ pc' = "query_sources"
    ELSE IF found \/ pocket_i = Len(ARCHIVE_POCKETS)
    THEN /\ pc' = "check_sources"
         /\ UNCHANGED <<pocket_i, status_i, no_sources>>
    ELSE /\ pocket_i' = pocket_i + 1
         /\ status_i' = 1
         /\ no_sources' = {}
         /\ pc' = "query_sources"

\* `break` at 144 leaves the status loop, and 145-147 the pocket loop.
AfterSourceFound_Continue == Continue(TRUE)

AfterSourceFound ==
    /\ pc' = "check_sources"
    /\ UNCHANGED <<pocket_i, status_i, no_sources>>

\* `break` at 132 leaves the loop over the binaries only: the status loop
\* goes on with source_package_found set.
AfterBinarySourceFound == Continue(TRUE)

\* ---------------------------------------------------------------- resolver
Match(via) == [pocket |-> Combination.pocket, status |-> Combination.status,
               via |-> via, result |-> sources']

\* 98-105 and 137-147: the direct query for package_name.
QuerySources(counts) ==
    /\ pc = "query_sources"
    /\ \E n \in counts :
        /\ sources' = PublishedSources(package_name, n)
        /\ visited' = Append(visited, Combination)
        /\ IF n = 0
           THEN /\ PrintMessages({"no_sources", "try_binary"})
                /\ no_sources' = no_sources \cup {package_name}
                /\ pc' = "query_binaries"
                /\ UNCHANGED <<pocket_i, status_i, source_package_found, matches>>
           ELSE /\ PrintMessages({"found_source"})
                /\ source_package_found' = TRUE
                /\ matches' = Append(matches, Match("direct"))
                /\ AfterSourceFound
    /\ UNCHANGED <<raised, binaries, bin_i, buildVars, docVars>>

\* 110-113 and 133-136: the binaries named package_name.
QueryBinaries(lists) ==
    /\ pc = "query_binaries"
    /\ \E names \in lists :
        /\ binaries' = PublishedBinaries(names)
        /\ IF names = <<>>
           THEN /\ PrintMessages({"no_binaries"})
                /\ Continue(source_package_found)
                /\ UNCHANGED bin_i
           ELSE /\ bin_i' = 1
                /\ pc' = "query_binary_source"
                /\ UNCHANGED <<pocket_i, status_i, no_sources, printed>>
    /\ UNCHANGED <<raised, sources, source_package_found, visited, matches,
                   buildVars, docVars>>

\* 116-132: one pass of the loop over the binaries.
QueryBinarySource(counts) ==
    /\ pc = "query_binary_source"
    /\ LET name == binaries[bin_i].source_package_name
       IN  /\ source_package_name' = name
           /\ \E n \in counts :
               /\ name \in no_sources => n = 0
               /\ sources' = PublishedSources(name, n)
               /\ IF n > 0
                  THEN /\ PrintMessages({"found_via_binary"})
                       /\ source_package_found' = TRUE
                       /\ matches' = Append(matches, Match("binary"))
                       /\ AfterBinarySourceFound
                       /\ UNCHANGED bin_i
                  ELSE /\ UNCHANGED <<source_package_found, matches, printed>>
                       /\ IF bin_i < Len(binaries)
                          THEN /\ bin_i' = bin_i + 1
                               /\ no_sources' = no_sources \cup {name}
                               /\ UNCHANGED <<pc, pocket_i, status_i>>
                          ELSE /\ Continue(source_package_found)
                               /\ UNCHANGED bin_i
    /\ UNCHANGED <<raised, binaries, visited, builds, build_i, architecture_build_found,
                   source_package_version, source_package_arch_tag, processed, docVars>>

\* -------------------------------------------------------- build selection
\* 150-154 and 290-293.
CheckSources(taglists) ==
    /\ pc = "check_sources"
    /\ IF Len(sources) = 1
       THEN \E tags \in taglists :
               /\ builds' = Builds(sources[1], tags)
               /\ IF Len(tags) > 1
                  THEN /\ architecture_build_found' = FALSE
                       /\ build_i' = 1
                       /\ pc' = "for_build"
                       /\ UNCHANGED printed
                  ELSE /\ PrintMessages({"unable_to_find_builds"})
                       /\ pc' = "done"
                       /\ UNCHANGED <<architecture_build_found, build_i>>
       ELSE /\ PrintMessages({"unable_to_find_package"})
            /\ pc' = "done"
            /\ UNCHANGED <<builds, architecture_build_found, build_i>>
    /\ UNCHANGED <<raised, resolverVars, source_package_name, source_package_version,
                   source_package_arch_tag, processed, docVars>>

\* 156: the test on the build's architecture tag.
ArchMatches(build) == build.arch_tag = package_architecture

\* 155, 287-289: the next build, or the end of the loop.
NextBuild ==
    IF build_i < Len(builds)
    THEN /\ build_i' = build_i + 1
         /\ pc' = "for_build"
    ELSE /\ pc' = "done"
         /\ UNCHANGED build_i

\* 287-289 after a build was processed: `break`.
AfterBuildProcessed_NoBreak == NextBuild

AfterBuildProcessed ==
    /\ pc' = "done"
    /\ UNCHANGED build_i

\* 155-156, 287: a build of another architecture.
SkipBuild ==
    /\ pc = "for_build"
    /\ ~ArchMatches(builds[build_i])
    /\ NextBuild
    /\ UNCHANGED <<raised, resolverVars, builds, architecture_build_found,
                   source_package_name, source_package_version, source_package_arch_tag,
                   processed, docVars, printed>>

\* 156-160: the build is taken.
SelectBuild ==
    /\ pc = "for_build"
    /\ ArchMatches(builds[build_i])
    /\ architecture_build_found' = TRUE
    /\ source_package_name' = builds[build_i].source_package_name
    /\ source_package_version' = builds[build_i].source_package_version
    /\ source_package_arch_tag' = builds[build_i].arch_tag
    /\ processed' = Append(processed, build_i)
    /\ pc' = "fetch_changelog"
    /\ UNCHANGED <<raised, resolverVars, builds, build_i, docVars, printed>>

\* ------------------------------------------------------------ the documents
\* f"{source_package_name}_{source_package_version}_{source_package_arch_tag}<suffix>"
FileName(suffix) ==
    <<source_package_name, "_", source_package_version, "_", source_package_arch_tag, suffix>>

buildinfo_filename == FileName(".buildinfo")

\* open(name, "w") ... f.write(content)
WriteFile(name, content) == written' = Append(written, [name |-> name, content |-> content])

\* 163-165: the changelog of the publication.
FetchChangelog(texts) ==
    /\ pc = "fetch_changelog"
    /\ \E text \in texts : changelog_resp' = text
    /\ fetched' = Append(fetched, [doc |-> "changelog", build |-> build_i])
    /\ pc' = "write_changelog"
    /\ UNCHANGED <<raised, resolverVars, buildVars, buildlog_resp, pkg_builddir, buildinfo,
                   changesfile_resp, written, printed>>

\* The changelog fetched but its write left out.
WriteChangelog_Missing ==
    /\ pc = "write_changelog"
    /\ pc' = "fetch_buildlog"
    /\ UNCHANGED <<raised, resolverVars, buildVars, changelog_resp, buildlog_resp,
                   pkg_builddir, buildinfo, changesfile_resp, fetched, written, printed>>

\* 168-175
WriteChangelog ==
    /\ pc = "write_changelog"
    /\ WriteFile(FileName(".changelog"), changelog_resp)
    /\ PrintMessages({"changelog_written"})
    /\ pc' = "fetch_buildlog"
    /\ UNCHANGED <<raised, resolverVars, buildVars, changelog_resp, buildlog_resp,
                   pkg_builddir, buildinfo, changesfile_resp, fetched>>

\* 178-180: the build log of the build.
FetchBuildlog(texts) ==
    /\ pc = "fetch_buildlog"
    /\ \E text \in texts : buildlog_resp' = text
    /\ fetched' = Append(fetched, [doc |-> "buildlog", build |-> build_i])
    /\ pc' = "scan_placeholder"
    /\ UNCHANGED <<raised, resolverVars, buildVars, changelog_resp, pkg_builddir, buildinfo,
                   changesfile_resp, written, printed>>

\* 186-199
ScanPlaceholder ==
    /\ pc = "scan_placeholder"
    /\ LET scan == PlaceholderScan(splitlines(buildlog_resp))
       IN  IF scan.raised
           THEN /\ raised' = "AttributeError"
                /\ pc' = "raised"
                /\ UNCHANGED pkg_builddir
           ELSE /\ pkg_builddir' = scan.pkg_builddir
                /\ pc' = "write_buildlog"
                /\ UNCHANGED raised
    /\ UNCHANGED <<resolverVars, buildVars, changelog_resp, buildlog_resp, buildinfo,
                   changesfile_resp, written, fetched, printed>>

\* 203-210
WriteBuildlog ==
    /\ pc = "write_buildlog"
    /\ WriteFile(FileName(".buildlog"), buildlog_resp)
    /\ PrintMessages({"buildlog_written"})
    /\ pc' = "extract_buildinfo"
    /\ UNCHANGED <<raised, resolverVars, buildVars, changelog_resp, buildlog_resp,
                   pkg_builddir, buildinfo, changesfile_resp, fetched>>

\* 217-238
ExtractBuildinfo ==
    /\ pc = "extract_buildinfo"
    /\ buildinfo' = ManifestScan(splitlines(buildlog_resp), <<>>, FALSE)
    /\ pc' = "substitute_placeholder"
    /\ UNCHANGED <<raised, resolverVars, buildVars, changelog_resp, buildlog_resp,
                   pkg_builddir, changesfile_resp, written, fetched, printed>>

\* 241
SubstitutePlaceholder ==
    /\ pc = "substitute_placeholder"
    /\ buildinfo' = replace(buildinfo, PKGBUILDDIR, pkg_builddir)
    /\ pc' = "write_buildinfo"
    /\ UNCHANGED <<raised, resolverVars, buildVars, changelog_resp, buildlog_resp,
                   pkg_builddir, changesfile_resp, written, fetched, printed>>

\* 243-251
WriteBuildinfo ==
    /\ pc = "write_buildinfo"
    /\ WriteFile(buildinfo_filename, buildinfo)
    /\ PrintMessages({"buildinfo_written"})
    /\ pc' = "fetch_changes"
    /\ UNCHANGED <<raised, resolverVars, buildVars, changelog_resp, buildlog_resp,
                   pkg_builddir, buildinfo, changesfile_resp, fetched>>

\* 253-255: the changes file of the build.
FetchChanges(texts) ==
    /\ pc = "fetch_changes"
    /\ \E text \in texts : changesfile_resp' = text
    /\ fetched' = Append(fetched, [doc |-> "changes", build |-> build_i])
    /\ pc' = "verify"
    /\ UNCHANGED <<raised, resolverVars, buildVars, changelog_resp, buildlog_resp,
                   pkg_builddir, buildinfo, written, printed>>

\* 259-275
Verify ==
    /\ pc = "verify"
    /\ LET verdict == VerifyScan(splitlines(changesfile_resp), FALSE, buildinfo_filename,
                                 buildinfo)
       IN  IF verdict = "" THEN UNCHANGED printed ELSE PrintMessages({verdict})
    /\ pc' = "write_changes"
    /\ UNCHANGED <<raised, resolverVars, buildVars, docVars>>

\* 279-289
WriteChanges ==
    /\ pc = "write_changes"
    /\ WriteFile(FileName(".changes"), changesfile_resp)
    /\ PrintMessages({"changes_written"})
    /\ AfterBuildProcessed
    /\ UNCHANGED <<raised, resolverVars, builds, architecture_build_found,
                   source_package_name, source_package_version, source_package_arch_tag,
                   processed, changelog_resp, buildlog_resp, pkg_builddir, buildinfo,
                   changesfile_resp, fetched>>

\* A call to Launchpad (a query, getBuilds, a document fetch) raises: the
\* exception is not caught and ends the run.
AtRemoteCall ==
    \/ pc \in {"query_sources", "query_binaries", "query_binary_source",
               "fetch_changelog", "fetch_buildlog", "fetch_changes"}
    \/ pc = "check_sources" /\ Len(sources) = 1

TransportFailure ==
    /\ AtRemoteCall
    /\ raised' = "TransportError"
    /\ pc' = "raised"
    /\ UNCHANGED <<resolverVars, buildVars, docVars, printed>>

\* ------------------------------------------------------------- the inputs
\* What Launchpad may answer.  Lines of a build log:
DataLine == <<"Format: 1.0">>
RulesLine == PKGBUILDDIR \o <<"/debian/rules">>
NoticeLine ==
    NOTICE_MARKER \o <<SPACE, QUOTE, "build/", "foo-1.0", QUOTE, SPACE>> \o WITH_MARKER
NoticeLineTrailing == NoticeLine \o <<SPACE, "(filtered)">>
NoticeLineNoPath == NOTICE_MARKER \o <<SPACE>> \o WITH_MARKER
IndentedStart == <<SPACE>> \o buildinfo_start
IndentedEnd == <<SPACE>> \o buildinfo_end

LogLines ==
    {buildinfo_start, buildinfo_end, buildlog_header_separator, <<>>, DataLine, RulesLine,
     NoticeLine, NoticeLineTrailing, NoticeLineNoPath, IndentedStart, IndentedEnd}

\* Every build log of at most MaxLogLines such lines.
AllLogs == {JoinLines(ls) : ls \in SeqsUpTo(LogLines, MaxLogLines)}

\* A build log as sbuild writes it, one without any marker, one whose notice
\* line names no path.
SbuildLog ==
    JoinLines(<<NoticeLine, buildlog_header_separator, buildinfo_start,
                buildlog_header_separator, <<>>, DataLine, RulesLine, <<>>,
                buildlog_header_separator, buildinfo_end, buildlog_header_separator,
                DataLine>>)
PlainLog == JoinLines(<<DataLine>>)
NoPathLog == JoinLines(<<NoticeLineNoPath, buildinfo_start, DataLine>>)
SomeLogs == {SbuildLog, PlainLog, NoPathLog}

\* The manifest the builder recorded for SbuildLog.
SbuildManifest == <<"Format: 1.0", NL, "build/", "foo-1.0", "/debian/rules", NL>>

\* Lines of a changes file that lists `filename`.
ChecksumLine(digest, filename) == <<SPACE>> \o digest \o <<SPACE, "1024", SPACE>> \o filename
OtherLine == <<"Format:", SPACE, "1.8">>
ChangesLines(filename) ==
    {CHECKSUMS_HEADER, OtherLine,
     ChecksumLine(hexdigest(SbuildManifest), filename),
     ChecksumLine(<<"d41d8cd9">>, filename),
     CHECKSUMS_HEADER \o ChecksumLine(hexdigest(SbuildManifest), filename)}

AllChanges(filename) ==
    {JoinLines(ls) : ls \in SeqsUpTo(ChangesLines(filename), MaxChangesLines)}

SomeChanges(filename) ==
    {JoinLines(<<OtherLine, CHECKSUMS_HEADER, ChecksumLine(hexdigest(SbuildManifest), filename)>>),
     JoinLines(<<OtherLine, CHECKSUMS_HEADER, ChecksumLine(<<"d41d8cd9">>, filename)>>),
     JoinLines(<<OtherLine>>)}

Changelogs == {<<"foo (1.0) focal; urgency=medium", NL>>}

\* ------------------------------------------------------------ specifications
\* A run against any archive, with a few documents.
Next ==
    \/ QuerySources(0..MaxSources)
    \/ QueryBinaries(SeqsUpTo(SourceNames, MaxBinaries))
    \/ QueryBinarySource(0..MaxSources)
    \/ CheckSources(SeqsUpTo(ArchTags, MaxBuilds))
    \/ SkipBuild
    \/ SelectBuild
    \/ FetchChangelog(Changelogs)
    \/ WriteChangelog
    \/ FetchBuildlog(SomeLogs)
    \/ ScanPlaceholder
    \/ WriteBuildlog
    \/ ExtractBuildinfo
    \/ SubstitutePlaceholder
    \/ WriteBuildinfo
    \/ FetchChanges(SomeChanges(buildinfo_filename))
    \/ Verify
    \/ WriteChanges
    \/ TransportFailure

Spec == Init /\ [][Next]_vars

\* A run against an archive that holds the package once and two builds of
\* it, with any build log.
NextExtract ==
    \/ QuerySources({1})
    \/ CheckSources({<<"arm64", "amd64">>})
    \/ SkipBuild
    \/ SelectBuild
    \/ FetchChangelog(Changelogs)
    \/ WriteChangelog
    \/ FetchBuildlog(AllLogs)
    \/ ScanPlaceholder
    \/ WriteBuildlog
    \/ ExtractBuildinfo
    \/ SubstitutePlaceholder
    \/ WriteBuildinfo
    \/ FetchChanges(SomeChanges(buildinfo_filename))
    \/ Verify
    \/ WriteChanges
    \/ TransportFailure

SpecExtract == Init /\ [][NextExtract]_vars

\* The same archive, sbuild's build log, any changes file.
NextVerify ==
    \/ QuerySources({1})
    \/ CheckSources({<<"arm64", "amd64">>})
    \/ SkipBuild
    \/ SelectBuild
    \/ FetchChangelog(Changelogs)
    \/ WriteChangelog
    \/ FetchBuildlog({SbuildLog})
    \/ ScanPlaceholder
    \/ WriteBuildlog
    \/ ExtractBuildinfo
    \/ SubstitutePlaceholder
    \/ WriteBuildinfo
    \/ FetchChanges(AllChanges(buildinfo_filename))
    \/ Verify
    \/ WriteChanges
    \/ TransportFailure

SpecVerify == Init /\ [][NextVerify]_vars

\* ------------------------------------------------------------------ claims
IsPrefix(s, t) == Len(s) <= Len(t) /\ s = SubSeq(t, 1, Len(s))

Where(m) == [pocket |-> m.pocket, status |-> m.status]

\* Pocket outer, status inner.
SearchOrder ==
    <<[pocket |-> "Release", status |-> "Published"],
      [pocket |-> "Release", status |-> "Superseded"],
      [pocket |-> "Security", status |-> "Published"],
      [pocket |-> "Security", status |-> "Superseded"],
      [pocket |-> "Updates", status |-> "Published"],
      [pocket |-> "Updates", status |-> "Superseded"],
      [pocket |-> "Proposed", status |-> "Published"],
      [pocket |-> "Proposed", status |-> "Superseded"]>>

Resolving == pc \in {"query_sources", "query_binaries", "query_binary_source"}

RunEnded == pc \in {"done", "raised"}

\* C1: the combinations are queried in the order Release, Security, Updates,
\* Proposed, each Published then Superseded; and when the first query that
\* returns a publication is a direct query, made at combination c, then no
\* combination after c is queried, nothing else matches, and the list that
\* build selection gets is that query's result.
C1_FirstMatchWins ==
    /\ IsPrefix(visited, SearchOrder)
    /\ (matches # <<>> /\ matches[1].via = "direct") =>
          /\ ~Resolving
          /\ visited[Len(visited)] = Where(matches[1])
          /\ Len(matches) = 1
          /\ sources = matches[1].result
          /\ Len(sources) >= 1

\* The package is found directly in Security/Published, after Release was
\* searched both ways in vain, and its builds are being gone through.
C1_Witness ==
    /\ pc = "for_build"
    /\ Len(matches) = 1
    /\ matches[1].via = "direct"
    /\ Where(matches[1]) = [pocket |-> "Security", status |-> "Published"]
    /\ Len(visited) = 3
    /\ builds = Builds(matches[1].result[1], <<"arm64", "amd64">>)

\* C2: whenever a binary's source package answers with a publication, at
\* Published or at Superseded, resolution stops at that combination and the
\* list that build selection gets is that answer.
C2_BinaryFallback ==
    \A k \in 1..Len(matches) :
        matches[k].via = "binary" =>
            /\ visited[Len(visited)] = Where(matches[k])
            /\ pc = "check_sources" => sources = matches[k].result

\* C3: "Unable to find published package" is printed only when all eight
\* combinations were searched without a match, or the last query returned
\* more than one publication; and never after a query returned exactly one.
C3_FailureOnlyWhen ==
    "unable_to_find_package" \in printed =>
        /\ \/ visited = SearchOrder /\ matches = <<>>
           \/ Len(sources) > 1
        /\ \A k \in 1..Len(matches) : Len(matches[k].result) # 1

\* The first build of the list with the requested architecture, 0 if none.
FirstMatchingBuild ==
    LET hits == {k \in 1..Len(builds) : builds[k].arch_tag = package_architecture}
    IN  IF hits = {} THEN 0 ELSE CHOOSE k \in hits : \A j \in hits : k <= j

\* C4: of a list of more than one build, only the first build with the
\* requested architecture is processed: no second build, no build of another
\* architecture, and every document fetched and every file written is that
\* build's; a run that reaches its end has processed it if there is one.
C4_BuildSelection ==
    /\ Len(processed) <= 1
    /\ \A k \in 1..Len(processed) :
          /\ Len(builds) > 1
          /\ processed[k] = FirstMatchingBuild
    /\ \A k \in 1..Len(fetched) : processed = <<fetched[k].build>>
    /\ \A k \in 1..Len(written) :
          /\ processed # <<>>
          /\ written[k].name[1] = builds[processed[1]].source_package_name
          /\ written[k].name[5] = package_architecture
    /\ (pc = "done" /\ Len(builds) > 1 /\ FirstMatchingBuild # 0) =>
          processed = <<FirstMatchingBuild>>

\* Builds amd64, arm64, amd64: the run ends with the first one processed.
C4_Witness ==
    /\ pc = "done"
    /\ Len(builds) = 3
    /\ builds[1].arch_tag = "amd64"
    /\ builds[2].arch_tag = "arm64"
    /\ builds[3].arch_tag = "amd64"
    /\ processed = <<1>>
    /\ Len(written) = 4

\* C5: a run that ends without a single resolved publication, or with a
\* build list of fewer than two entries or without a build of the requested
\* architecture, has printed the failure and has fetched and written nothing.
C5_FailuresSurfaced ==
    pc = "done" =>
        /\ Len(sources) # 1 =>
              /\ "unable_to_find_package" \in printed
              /\ fetched = <<>>
              /\ written = <<>>
        /\ (Len(sources) = 1 /\ (Len(builds) < 2 \/ FirstMatchingBuild = 0)) =>
              /\ "unable_to_find_builds" \in printed
              /\ fetched = <<>>
              /\ written = <<>>

\* The region as C6 describes it: from after the first line equal to the
\* Buildinfo banner to before the first later line equal to the
\* Package-contents banner, without banners, separator rows and empty lines.
RECURSIVE ClaimedRegion(_, _)
ClaimedRegion(lines, inside) ==
    IF lines = <<>> THEN <<>>
    ELSE IF ~inside
         THEN ClaimedRegion(Tail(lines), Head(lines) = buildinfo_start)
    ELSE IF Head(lines) = buildinfo_end THEN <<>>
    ELSE (IF Head(lines) \in {buildinfo_start, buildlog_header_separator, <<>>}
          THEN <<>> ELSE Head(lines) \o <<NL>>)
         \o ClaimedRegion(Tail(lines), TRUE)

\* C6: the manifest, before the placeholder is substituted, is that region
\* of the build log.
C6_ManifestRegion ==
    pc = "substitute_placeholder" =>
        buildinfo = ClaimedRegion(splitlines(buildlog_resp), FALSE)

\* The path as C7 describes it: in the first notice line, the text between
\* the quote before build/ and the next quote followed by a space; empty
\* when there is no notice line or no such text.
ClaimedPathOf(line) ==
    LET starts == {i \in 1..(Len(line) - 1) : line[i] = QUOTE /\ line[i + 1] = "build/"}
        ends(i) == {j \in (i + 2)..(Len(line) - 1) : line[j] = QUOTE /\ line[j + 1] = SPACE}
        ok == {i \in starts : ends(i) # {}}
    IN  IF ok = {} THEN <<>>
        ELSE LET i == CHOOSE a \in ok : \A b \in ok : a <= b
                 j == CHOOSE e \in ends(i) : \A f \in ends(i) : e <= f
             IN  SubSeq(line, i + 1, j - 1)

RECURSIVE ClaimedPath(_)
ClaimedPath(lines) ==
    IF lines = <<>> THEN <<>>
    ELSE IF IsNoticeLine(Head(lines)) THEN ClaimedPathOf(Head(lines))
    ELSE ClaimedPath(Tail(lines))

\* C7: the manifest holds no <<PKGBUILDDIR>>: it is the accumulated region
\* with every occurrence replaced by that path.
C7_PlaceholderSubstituted ==
    pc = "write_buildinfo" =>
        /\ ~Contains(buildinfo, PKGBUILDDIR)
        /\ buildinfo = replace(ManifestScan(splitlines(buildlog_resp), <<>>, FALSE),
                               PKGBUILDDIR, ClaimedPath(splitlines(buildlog_resp)))

\* The outcome as C8 describes it.
RECURSIVE ClaimedOutcome(_, _, _, _)
ClaimedOutcome(lines, header_seen, filename, text) ==
    IF lines = <<>> THEN "hash_not_present"
    ELSE LET seen == header_seen \/ Contains(Head(lines), CHECKSUMS_HEADER)
         IN  IF seen /\ Contains(Head(lines), filename)
             THEN (IF split(Head(lines))[1] = hexdigest(text)
                   THEN "hash_matches" ELSE "hash_mismatch")
             ELSE ClaimedOutcome(Tail(lines), seen, filename, text)

VerificationMessages == {"hash_matches", "hash_mismatch", "hash_not_present"}

\* C8: verification reports exactly one of Match, Mismatch and NotPresent,
\* decided by the first line naming the manifest file at or after the
\* Checksums-Sha256 header.
C8_OutcomeReported ==
    pc = "write_changes" =>
        printed \cap VerificationMessages =
            {ClaimedOutcome(splitlines(changesfile_resp), FALSE, buildinfo_filename, buildinfo)}

\* C9: a run that selected a build and in which no fetch failed ends with
\* exactly the four files of that build: the changelog, the build log and
\* the changes file as fetched, and the manifest.
C9_FourFiles ==
    (RunEnded /\ processed # <<>> /\ raised # "TransportError") =>
        /\ Len(written) = 4
        /\ {written[k] : k \in 1..Len(written)} =
              {[name |-> FileName(".changelog"), content |-> changelog_resp],
               [name |-> FileName(".buildlog"), content |-> buildlog_resp],
               [name |-> FileName(".buildinfo"), content |-> buildinfo],
               [name |-> FileName(".changes"), content |-> changesfile_resp]}
        /\ source_package_name = builds[processed[1]].source_package_name
        /\ source_package_version = builds[processed[1]].source_package_version
        /\ source_package_arch_tag = builds[processed[1]].arch_tag

\* C10: whatever the build log, extraction does not end the run: a run that
\* fetched the build log writes the .buildinfo file, with an empty
\* placeholder path when the notice line names no path.
C10_LenientExtraction ==
    /\ raised # "AttributeError"
    /\ (pc = "done" /\ processed # <<>>) =>
          \E k \in 1..Len(written) : written[k].name = buildinfo_filename

\* The file names of the build at position b of builds, in the order the
\* run writes them.
OutputOrder(b) ==
    LET base == <<builds[b].source_package_name, "_", builds[b].source_package_version,
                  "_", builds[b].arch_tag>>
    IN  <<base \o <<".changelog">>, base \o <<".buildlog">>,
          base \o <<".buildinfo">>, base \o <<".changes">> >>

WrittenNames == [k \in 1..Len(written) |-> written[k].name]

Fetched(doc) == \E k \in 1..Len(fetched) : fetched[k].doc = doc

\* C11: in every state of a run, a run cut short by a failed fetch included,
\* the files written so far are a prefix of changelog, build log, manifest,
\* changes file, all named after the one selected build; so a written
\* changes file means all four were written, the changelog is written before
\* the build log is fetched, and the manifest is written before the changes
\* file is fetched or verified.
C11_OutputOrdering ==
    /\ written # <<>> => Len(processed) = 1
    /\ written # <<>> => IsPrefix(WrittenNames, OutputOrder(processed[1]))
    /\ (\E k \in 1..Len(written) : written[k].name = FileName(".changes")) =>
          Len(written) = 4
    /\ Fetched("buildlog") =>
          (Len(written) >= 1 /\ written[1].name = FileName(".changelog"))
    /\ (Fetched("changes") \/ printed \cap VerificationMessages # {}) =>
          (Len(written) >= 3 /\ written[3].name = buildinfo_filename)

\* A run cut short by the failed fetch of the changes file: the changelog,
\* the build log and the manifest are written, the changes file is not.
C11_Witness ==
    /\ pc = "raised"
    /\ raised = "TransportError"
    /\ Fetched("buildlog")
    /\ ~Fetched("changes")
    /\ Len(written) = 3

====
